---- MODULE Spec2Model ----
(***************************************************************************)
(* okham-catalog-worker: the fetch handler of src/src/index.ts, its three  *)
(* resolvers and the key canonicalizer.                                    *)
(*                                                                         *)
(* Strings are sequences of tokens.  A token is a fragment of text that    *)
(* the code never looks inside except through the operators below: the     *)
(* separators "/" and "\", the dot ".", the file suffixes ".json", ".yaml" *)
(* and ".yml", the names the code compares with ("catalog", "registry",    *)
(* "latest", "_health", "_ingest", "github"), an opaque name "x", the      *)
(* percent escapes "%2F", "%5C", "%25" and a bare "%" that no hex digits   *)
(* follow.  "registry.json" is <<"registry", ".json">>.                    *)
(***************************************************************************)
EXTENDS Integers, Sequences, FiniteSets, TLC

\* ------------------------------------------------------------------ bounds
\* Longest request path built freely from Segs, in segments; the paths of
\* the latest and artifact shapes are built from Kinds, Ids, Thirds and Files.
MaxSegs == 2
\* How many times the legacy deployment prefix is put in front of a request.
MaxMirror == 2
\* Longest list of parts, and longest part, handed to keyJoin on its own.
MaxParts == 2
MaxPartLen == 2

\* ----------------------------------------------------------------- strings
None == [none |-> TRUE]

\* Array.prototype.join
RECURSIVE Join(_, _)
Join(parts, sep) ==
  IF parts = <<>> THEN <<>>
  ELSE IF Len(parts) = 1 THEN parts[1]
  ELSE parts[1] \o sep \o Join(Tail(parts), sep)

\* String.prototype.split on a one-token separator
RECURSIVE Split(_, _)
Split(s, sep) ==
  IF \A i \in 1..Len(s) : s[i] # sep THEN <<s>>
  ELSE LET i == CHOOSE k \in 1..Len(s) : s[k] = sep /\ \A j \in 1..(k - 1) : s[j] # sep
       IN  <<SubSeq(s, 1, i - 1)>> \o Split(SubSeq(s, i + 1, Len(s)), sep)

StartsWith(s, p) == Len(s) >= Len(p) /\ SubSeq(s, 1, Len(p)) = p
EndsWith(s, p) == Len(s) >= Len(p) /\ SubSeq(s, Len(s) - Len(p) + 1, Len(s)) = p
Slice(s, n) == SubSeq(s, n + 1, Len(s))

\* ------------------------------------------------------------ keyJoin
\* .replace(/\\/g, "/")
BackslashToSlash(s) == [i \in 1..Len(s) |-> IF s[i] = "\\" THEN "/" ELSE s[i]]

\* .replace(/\/+/, "/"): the first run of slashes becomes one slash
ReplaceFirstRun(s) ==
  IF \A i \in 1..Len(s) : s[i] # "/" THEN s
  ELSE LET a == CHOOSE k \in 1..Len(s) : s[k] = "/" /\ \A j \in 1..(k - 1) : s[j] # "/"
           b == CHOOSE k \in a..Len(s) :
                  /\ \A j \in a..k : s[j] = "/"
                  /\ (k = Len(s) \/ s[k + 1] # "/")
       IN  SubSeq(s, 1, a) \o SubSeq(s, b + 1, Len(s))

\* .replace(/\/{2,}/g, "/"): every run of two or more slashes becomes one slash
RECURSIVE CollapseRuns(_)
CollapseRuns(s) ==
  IF Len(s) < 2 THEN s
  ELSE IF s[1] = "/" /\ s[2] = "/" THEN CollapseRuns(Tail(s))
  ELSE <<s[1]>> \o CollapseRuns(Tail(s))

\* .replace(/^\//, "")
StripLeadingSlash(s) == IF s # <<>> /\ s[1] = "/" THEN Tail(s) ELSE s

keyJoinFirstRunOnly(parts) ==
  StripLeadingSlash(ReplaceFirstRun(BackslashToSlash(Join(parts, <<"/">>))))

keyJoin(parts) ==
  StripLeadingSlash(CollapseRuns(ReplaceFirstRun(BackslashToSlash(Join(parts, <<"/">>)))))

\* ------------------------------------------------- percent escapes, URLs
\* decodeURIComponent throws URIError on a "%" that no two hex digits follow.
DecodeThrows(s) == \E i \in 1..Len(s) : s[i] = "%"

DecodeToken(c) ==
  CASE c = "%2F" -> "/"
    [] c = "%5C" -> "\\"
    [] c = "%25" -> "%"
    [] OTHER -> c

decodeURIComponent(s) == [i \in 1..Len(s) |-> DecodeToken(s[i])]

\* encodeURIComponent escapes everything but A-Z a-z 0-9 - _ . ! ~ * ' ( )
EncodeToken(c) ==
  CASE c = "/" -> "%2F"
    [] c = "\\" -> "%5C"
    [] c = "%" -> "%25"
    [] OTHER -> c

encodeURIComponent(s) == [i \in 1..Len(s) |-> EncodeToken(s[i])]

\* The URL parser's path state on a path that holds no backslash, "?" or "#":
\* a "." segment is dropped, a ".." segment removes the segment before it, and
\* either one at the end of the path leaves an empty last segment.
RECURSIVE ShortenPath(_, _)
ShortenPath(segs, acc) ==
  IF segs = <<>> THEN acc
  ELSE LET g == Head(segs)
           last == Len(segs) = 1
       IN  IF g = <<".", ".">>
             THEN ShortenPath(Tail(segs),
                    (IF acc = <<>> THEN acc ELSE SubSeq(acc, 1, Len(acc) - 1))
                    \o (IF last THEN << <<>> >> ELSE <<>>))
           ELSE IF g = <<".">>
             THEN ShortenPath(Tail(segs), acc \o (IF last THEN << <<>> >> ELSE <<>>))
           ELSE ShortenPath(Tail(segs), Append(acc, g))

\* new URL(path, origin) for a path that starts with "/"; toString() is
\* origin followed by pathname.
URL(path, origin) ==
  [origin |-> origin,
   pathname |-> <<"/">> \o Join(ShortenPath(Split(Tail(path), "/"), <<>>), <<"/">>)]

\* --------------------------------------------------------------- responses
\* Header names are written in lower case, as a Response's Headers holds them.
CORS_HEADERS ==
  [n \in {"access-control-allow-origin", "access-control-allow-methods",
          "access-control-allow-headers"} |->
     CASE n = "access-control-allow-origin" -> "*"
       [] n = "access-control-allow-methods" -> "GET,POST,OPTIONS"
       [] n = "access-control-allow-headers" ->
            "Content-Type, Authorization, X-Hub-Signature-256"]

NoHeaders == [n \in {} |-> ""]

\* new Response(body, {status, headers}); an object spread { ...a, ...b } is
\* b @@ a: the later entry wins.
Response(body, status, headers) ==
  [kind |-> "response", status |-> status, headers |-> headers, body |-> body]

\* An exception that leaves fetch: the handler returns no Response.
Throw(error) == [kind |-> "throw", error |-> error]

json(data, status) ==
  Response([json |-> data], status,
           CORS_HEADERS @@ ("content-type" :> "application/json; charset=utf-8"))

notFound == json([error |-> "not_found"], 404)

\* ------------------------------------------------------------------ stores
\* A store is a function from the keys it holds to what it holds there.
EmptyStore == [k \in {} |-> None]

\* KVNamespace.get / R2Bucket.get: null when the key is absent
StoreGet(store, key) == IF key \in DOMAIN store THEN store[key] ELSE None

\* A text held in the key-value store: the empty string, a text that is not
\* JSON, or the JSON text of a value.
TextEmpty == [form |-> "empty"]
TextGarbage == [form |-> "garbage"]
JsonText(value) == [form |-> "json", value |-> value]

Undefined == [undefined |-> TRUE]
JNull == [t |-> "null"]
JNumber == [t |-> "number", n |-> 5]
JArray == [t |-> "array"]
JString(s) == [t |-> "string", s |-> s]
JObject(fields) == [t |-> "object", fields |-> fields]

\* JSON.parse
ParseThrows(text) == text.form # "json"
JSONparse(text) == text.value

\* value.version: a TypeError on null, undefined on a value without the field
MemberThrows(value) == value = JNull
VersionOf(value) ==
  IF value.t = "object" /\ "version" \in DOMAIN value.fields
  THEN value.fields["version"] ELSE Undefined

\* !x
Falsy(x) == x \in {Undefined, None, JNull, JString(<<>>), TextEmpty}

\* String(x) of a JSON string or number, as encodeURIComponent takes it
StringOf(x) == IF x.t = "string" THEN x.s ELSE <<"5">>

\* An object of the blob store: httpMetadata holds the stored headers that
\* writeHttpMetadata copies out.
R2Object(meta) == [httpMetadata |-> meta, httpEtag |-> "etag-1", body |-> [bytes |-> "artifact"]]

\* --------------------------------------------------------------- resolvers
\* What a resolver or the handler returns: the outcome, the resolver called
\* with its arguments, and the keys read from each store, in order.
Result(out, call, kvReads, r2Reads) ==
  [out |-> out, call |-> call, kvReads |-> kvReads, r2Reads |-> r2Reads]

NoCall == [route |-> "none"]

serveRegistry(env, kind) ==
  LET key == keyJoin(<<<<"catalog">>, kind, <<"registry", ".json">>>>)
      v == StoreGet(env.CATALOG_INDEX, key)
      call == [route |-> "registry", kind |-> kind]
  IN  IF Falsy(v) THEN Result(notFound, call, <<key>>, <<>>)
      ELSE Result(Response(v, 200,
                    CORS_HEADERS @@ ("cache-control" :> "public, max-age=60")
                      @@ ("content-type" :> "application/json; charset=utf-8")),
                  call, <<key>>, <<>>)

\* The redirect target: new URL(`/${kind}/${id}/${version}/${file}`, baseUrl.origin)
\* with kind, id and version each through encodeURIComponent.
CanonicalPath(kind, id, version, file) ==
  <<"/">> \o encodeURIComponent(kind) \o <<"/">> \o encodeURIComponent(id) \o <<"/">>
    \o encodeURIComponent(StringOf(version)) \o <<"/">> \o file

LatestLocationKeepsPrefix(baseUrl, kind, id, version, file) ==
  URL((IF StartsWith(baseUrl.path, <<"/", "catalog", "/">>) THEN <<"/", "catalog">> ELSE <<>>)
        \o CanonicalPath(kind, id, version, file),
      baseUrl.origin)

LatestLocationRawVersion(baseUrl, kind, id, version, file) ==
  URL(<<"/">> \o encodeURIComponent(kind) \o <<"/">> \o encodeURIComponent(id) \o <<"/">>
        \o StringOf(version) \o <<"/">> \o file,
      baseUrl.origin)

LatestLocation(baseUrl, kind, id, version, file) ==
  URL(CanonicalPath(kind, id, version, file), baseUrl.origin)

serveLatestAlias(baseUrl, env, kind, id, file) ==
  LET latestKey == keyJoin(<<<<"catalog">>, kind, id, <<"latest", ".json">>>>)
      latestJson == StoreGet(env.CATALOG_INDEX, latestKey)
      call == [route |-> "latest", kind |-> kind, id |-> id, file |-> file]
      invalid == json([error |-> "invalid_latest", key |-> latestKey], 500)
      R(out) == Result(out, call, <<latestKey>>, <<>>)
  IN  IF Falsy(latestJson) THEN R(notFound)
      ELSE IF ParseThrows(latestJson) THEN R(invalid)
      ELSE LET latest == JSONparse(latestJson)
           IN  IF MemberThrows(latest) THEN R(Throw("TypeError"))
               ELSE IF Falsy(VersionOf(latest)) THEN R(invalid)
               ELSE LET url == LatestLocation(baseUrl, kind, id, VersionOf(latest), file)
                    IN  R(Response(None, 302,
                            CORS_HEADERS @@ ("cache-control" :> "public, max-age=30")
                              @@ ("location" :> url)))

\* R2Object.writeHttpMetadata(headers), then the handler's own headers.set
\* calls: a set replaces what is there.
DefaultContentTypeNoYml(file) ==
  IF EndsWith(file, <<".json">>) THEN "application/json; charset=utf-8"
  ELSE IF EndsWith(file, <<".yaml">>) THEN "text/yaml; charset=utf-8"
  ELSE "application/octet-stream"

DefaultContentType(file) ==
  IF EndsWith(file, <<".json">>) THEN "application/json; charset=utf-8"
  ELSE IF EndsWith(file, <<".yaml">>) \/ EndsWith(file, <<".yml">>)
    THEN "text/yaml; charset=utf-8"
  ELSE "application/octet-stream"

serveArtifact(env, kind, id, version, file) ==
  LET key == keyJoin(<<<<"catalog">>, kind, id, version, file>>)
      obj == StoreGet(env.CATALOG_BUCKET, key)
      call == [route |-> "artifact", kind |-> kind, id |-> id,
               version |-> version, file |-> file]
  IN  IF obj = None THEN Result(notFound, call, <<>>, <<key>>)
      ELSE LET written == obj.httpMetadata
               set == CORS_HEADERS
                        @@ ("cache-control" :> "public, max-age=31536000, immutable")
                        @@ ("etag" :> obj.httpEtag)
                        @@ written
               headers == IF "content-type" \in DOMAIN set THEN set
                          ELSE ("content-type" :> DefaultContentType(file)) @@ set
           IN  Result(Response(obj.body, 200, headers), call, <<>>, <<key>>)

handleIngest(env) ==
  IF env.INGEST_ENABLED # "1"
  THEN json([error |-> "disabled",
             message |-> "Ingest is not enabled yet. Enable by setting INGEST_ENABLED=1 and implementing webhook verification + publish pipeline."],
            501)
  ELSE json([error |-> "not_implemented"], 501)

\* ----------------------------------------------------------------- routing
\* A path that starts with "/" splits into the empty text before the first
\* slash and its segments; [^/]+ matches one non-empty segment.
NoMatch == [matched |-> FALSE]

\* apiPath.match(/^\/([^/]+)\/registry\.json$/)
registryMatch(apiPath) ==
  LET g == Split(apiPath, "/")
  IN  IF /\ Len(g) = 3 /\ g[1] = <<>> /\ g[2] # <<>>
         /\ g[3] = <<"registry", ".json">>
      THEN [matched |-> TRUE, g1 |-> g[2]]
      ELSE NoMatch

\* apiPath.match(/^\/([^/]+)\/([^/]+)\/latest\/(.+)$/)
latestMatch(apiPath) ==
  LET g == Split(apiPath, "/")
  IN  IF /\ Len(g) >= 5 /\ g[1] = <<>> /\ g[2] # <<>> /\ g[3] # <<>>
         /\ g[4] = <<"latest">>
         /\ Join(SubSeq(g, 5, Len(g)), <<"/">>) # <<>>
      THEN [matched |-> TRUE, g1 |-> g[2], g2 |-> g[3],
            g3 |-> Join(SubSeq(g, 5, Len(g)), <<"/">>)]
      ELSE NoMatch

\* apiPath.match(/^\/([^/]+)\/([^/]+)\/([^/]+)\/(.+)$/)
artifactMatch(apiPath) ==
  LET g == Split(apiPath, "/")
  IN  IF /\ Len(g) >= 5 /\ g[1] = <<>> /\ g[2] # <<>> /\ g[3] # <<>> /\ g[4] # <<>>
         /\ Join(SubSeq(g, 5, Len(g)), <<"/">>) # <<>>
      THEN [matched |-> TRUE, g1 |-> g[2], g2 |-> g[3], g3 |-> g[4],
            g4 |-> Join(SubSeq(g, 5, Len(g)), <<"/">>)]
      ELSE NoMatch

LegacyPrefix == <<"/", "catalog">>

isLegacyPrefix(path) ==
  path = LegacyPrefix \/ path = LegacyPrefix \o <<"/">>
    \/ StartsWith(path, LegacyPrefix \o <<"/">>)

apiPathNoStrip(path) == path

apiPathOf(path) ==
  IF StartsWith(path, LegacyPrefix \o <<"/">>) THEN Slice(path, Len(LegacyPrefix)) ELSE path

\* "https://okham.io/catalogs/", the human-facing page
CatalogsPage == [origin |-> "https://okham.io", pathname |-> <<"/", "catalogs", "/">>]

RootRedirect ==
  Response(None, 302,
           CORS_HEADERS @@ ("cache-control" :> "public, max-age=300")
             @@ ("location" :> CatalogsPage))

\* The handler after the OPTIONS and root checks: health, ingest and the
\* three patterns, in the order the code tries them.
dispatch(req, env, apiPath) ==
  LET path == req.path
      rm == registryMatch(apiPath)
      lm == latestMatch(apiPath)
      am == artifactMatch(apiPath)
  IN  IF apiPath = <<"/", "_health">>
        THEN Result(json([ok |-> TRUE, worker |-> env.OKHAM_CATALOG_WORKER, now |-> "now",
                          legacy |-> isLegacyPrefix(path)], 200),
                    [route |-> "health"], <<>>, <<>>)
      ELSE IF apiPath = <<"/", "_ingest", "/", "github">> /\ req.method = "POST"
        THEN Result(handleIngest(env), [route |-> "ingest"], <<>>, <<>>)
      ELSE IF rm.matched /\ req.method = "GET"
        THEN IF DecodeThrows(rm.g1) THEN Result(Throw("URIError"), NoCall, <<>>, <<>>)
             ELSE serveRegistry(env, decodeURIComponent(rm.g1))
      ELSE IF lm.matched /\ req.method = "GET"
        THEN IF DecodeThrows(lm.g1) \/ DecodeThrows(lm.g2)
             THEN Result(Throw("URIError"), NoCall, <<>>, <<>>)
             ELSE serveLatestAlias(req, env, decodeURIComponent(lm.g1),
                                   decodeURIComponent(lm.g2), lm.g3)
      ELSE IF am.matched /\ req.method = "GET"
        THEN IF DecodeThrows(am.g1) \/ DecodeThrows(am.g2) \/ DecodeThrows(am.g3)
             THEN Result(Throw("URIError"), NoCall, <<>>, <<>>)
             ELSE serveArtifact(env, decodeURIComponent(am.g1), decodeURIComponent(am.g2),
                                decodeURIComponent(am.g3), am.g4)
      ELSE Result(notFound, NoCall, <<>>, <<>>)

\* export default { fetch(req, env) }
fetch(req, env) ==
  IF req.method = "OPTIONS"
    THEN Result(Response(None, 204, CORS_HEADERS), [route |-> "preflight"], <<>>, <<>>)
  ELSE IF req.path \in {<<"/">>, <<>>, LegacyPrefix, LegacyPrefix \o <<"/">>}
    THEN Result(RootRedirect, [route |-> "root"], <<>>, <<>>)
  ELSE dispatch(req, env, apiPathOf(req.path))

\* ------------------------------------------------------------------ inputs
Methods == {"GET", "POST", "OPTIONS"}
Origins == {"https://catalog.okham.io", "https://okham.io"}
IngestFlags == {"0", "1"}

\* The segments request paths are made of.
Segs ==
  { <<>>, <<"catalog">>, <<"registry", ".json">>, <<"latest">>, <<"_health">>,
    <<"_ingest">>, <<"github">>, <<"x">>, <<"x", ".yaml">>, <<"x", ".yml">>,
    <<"%2F">>, <<"%">> }

\* url.pathname of a request: "/" followed by the segments, slash-separated.
PathOf(segs) == <<"/">> \o Join(segs, <<"/">>)
ShortPaths == { PathOf(g) : g \in UNION { [1..n -> Segs] : n \in 0..MaxSegs } }

\* /<kind>/<id>/<third>/<file>, as they stand in the path (not yet decoded);
\* a file may hold slashes, and may be empty (the path then ends with "/").
Kinds == { <<"x">>, <<"catalog">>, <<"%2F">>, <<"%">> }
Ids == { <<"x">>, <<"%5C">> }
Thirds == { <<"x">>, <<"latest">>, <<"registry", ".json">>, <<"%">> }
Files ==
  { <<>>, <<"x">>, <<"x", ".json">>, <<"x", ".yaml">>, <<"x", ".yml">>, <<"%2F">>,
    <<"/", "x">>, <<"x", "/", "x", ".yml">> }
DeepPaths == { PathOf(<<k, i, t, f>>) : k \in Kinds, i \in Ids, t \in Thirds, f \in Files }

Paths == ShortPaths \cup DeepPaths

\* The version labels a latest pointer names.
Versions == { <<"x">>, <<"latest">>, <<".", ".">>, <<"x", "/", "x">> }

KvTexts ==
  { TextEmpty, TextGarbage, JsonText(JNull), JsonText(JNumber), JsonText(JArray),
    JsonText(JObject([f \in {} |-> JNull])),
    JsonText(JObject("version" :> JString(<<>>))),
    JsonText(JObject("version" :> JNumber)) }
  \cup { JsonText(JObject("version" :> JString(v))) : v \in Versions }

R2Objects ==
  { R2Object(NoHeaders), R2Object("content-type" :> "text/html"),
    R2Object("cache-control" :> "no-store") }

Env(kvStore, r2Store, flag) ==
  [CATALOG_INDEX |-> kvStore, CATALOG_BUCKET |-> r2Store,
   OKHAM_CATALOG_WORKER |-> "okham-catalog-worker", INGEST_ENABLED |-> flag]

Request(method, origin, path) == [method |-> method, origin |-> origin, path |-> path]

\* A response that redirects to a path of the deployment itself.
RedirectsHome(out) ==
  /\ out.kind = "response" /\ out.status = 302
  /\ out.headers["location"] # CatalogsPage

\* The request of a client that follows such a redirect.
FollowRequest(out) == Request("GET", out.headers["location"].origin, out.headers["location"].pathname)

Range(q) == { q[i] : i \in 1..Len(q) }

\* The store contents a request is tried against: each store is empty or
\* holds one entry, under a key that the request, or the request that follows
\* its redirect, reads.
KvStoresFor(r) ==
  {EmptyStore} \cup
  { (k :> t) : k \in Range(fetch(r, Env(EmptyStore, EmptyStore, "0")).kvReads), t \in KvTexts }

R2StoresFor(r, kvStore) ==
  LET first == fetch(r, Env(kvStore, EmptyStore, "0"))
      next == IF RedirectsHome(first.out)
              THEN Range(fetch(FollowRequest(first.out), Env(kvStore, EmptyStore, "0")).r2Reads)
              ELSE {}
  IN  {EmptyStore} \cup { (k :> o) : k \in Range(first.r2Reads) \cup next, o \in R2Objects }

\* ------------------------------------------------------------------- state
VARIABLES
  kv,        \* env.CATALOG_INDEX: the key-value store
  r2,        \* env.CATALOG_BUCKET: the blob store
  ingest,    \* env.INGEST_ENABLED
  req,       \* the request last handled, None before the first
  res,       \* what fetch returned for req
  prev,      \* the exchange req was derived from, None for a fresh request
  how,       \* "fresh", "mirror" (legacy-prefixed copy) or "follow" (redirect)
  mirrors,   \* how many legacy prefixes the client has added
  keyParts,  \* parts handed to keyJoin on its own
  keyOut,    \* keyJoin(keyParts)
  keyAgain   \* keyJoin of keyOut

vars == <<kv, r2, ingest, req, res, prev, how, mirrors, keyParts, keyOut, keyAgain>>
keyVars == <<keyParts, keyOut, keyAgain>>
httpVars == <<kv, r2, ingest, req, res, prev, how, mirrors>>

Init ==
  /\ kv = EmptyStore /\ r2 = EmptyStore /\ ingest = "0"
  /\ req = None /\ res = None /\ prev = None /\ how = "fresh" /\ mirrors = 0
  /\ keyParts = <<>> /\ keyOut = None /\ keyAgain = None

\* A client submits a fresh request; the stores hold what the publisher has
\* written by then.
Fetch ==
  /\ req = None
  /\ \E m \in Methods, o \in Origins, p \in Paths, flag \in IngestFlags :
       LET r == Request(m, o, p)
       IN  \E kvStore \in KvStoresFor(r) :
             \E r2Store \in R2StoresFor(r, kvStore) :
               /\ kv' = kvStore /\ r2' = r2Store /\ ingest' = flag
               /\ req' = r
               /\ res' = fetch(r, Env(kvStore, r2Store, flag))
  /\ prev' = None /\ how' = "fresh" /\ mirrors' = 0
  /\ UNCHANGED keyVars

\* The same request arrives through the legacy mount: "/catalog" in front of
\* its path, against the same stores.
Mirror ==
  /\ req # None /\ mirrors < MaxMirror
  /\ LET r == Request(req.method, req.origin, LegacyPrefix \o req.path)
     IN  /\ req' = r
         /\ res' = fetch(r, Env(kv, r2, ingest))
  /\ prev' = [req |-> req, res |-> res]
  /\ how' = "mirror" /\ mirrors' = mirrors + 1
  /\ UNCHANGED <<kv, r2, ingest, keyVars>>

\* The client follows a redirect into the deployment, against the same stores.
Follow ==
  /\ req # None /\ RedirectsHome(res.out)
  /\ LET r == FollowRequest(res.out)
     IN  /\ req' = r
         /\ res' = fetch(r, Env(kv, r2, ingest))
  /\ prev' = [req |-> req, res |-> res]
  /\ how' = "follow"
  /\ UNCHANGED <<kv, r2, ingest, mirrors, keyVars>>

\* The exchange is over; the next request is a fresh one.
Finish ==
  /\ req # None
  /\ req' = None /\ res' = None /\ prev' = None /\ how' = "fresh" /\ mirrors' = 0
  /\ kv' = EmptyStore /\ r2' = EmptyStore /\ ingest' = "0"
  /\ UNCHANGED keyVars

Next == Fetch \/ Mirror \/ Follow \/ Finish

Spec == Init /\ [][Next]_vars

\* -------------------------------------------------- keyJoin on its own
\* keyJoin applied to any list of parts, and again to its own result.
KeyTokens == {"/", "\\", "x"}
KeyPartsOf == UNION { [1..n -> KeyTokens] : n \in 0..MaxPartLen }
KeyLists == UNION { [1..n -> KeyPartsOf] : n \in 0..MaxParts }

InitKey ==
  /\ kv = EmptyStore /\ r2 = EmptyStore /\ ingest = "0"
  /\ req = None /\ res = None /\ prev = None /\ how = "fresh" /\ mirrors = 0
  /\ keyParts \in KeyLists /\ keyOut = None /\ keyAgain = None

Canonicalize ==
  /\ keyOut = None
  /\ keyOut' = [key |-> keyJoin(keyParts)]
  /\ UNCHANGED <<keyParts, keyAgain, httpVars>>

Recanonicalize ==
  /\ keyOut # None /\ keyAgain = None
  /\ keyAgain' = [key |-> keyJoin(<<keyOut.key>>)]
  /\ UNCHANGED <<keyParts, keyOut, httpVars>>

NextKey == Canonicalize \/ Recanonicalize

SpecKey == InitKey /\ [][NextKey]_vars

\* ================================================================== claims
Handled == req # None
Responded == Handled /\ res.out.kind = "response"
HeaderIs(out, name, value) == name \in DOMAIN out.headers /\ out.headers[name] = value
HasCors(out) == \A n \in DOMAIN CORS_HEADERS : HeaderIs(out, n, CORS_HEADERS[n])
RegistryKey(kind) == keyJoin(<<<<"catalog">>, kind, <<"registry", ".json">>>>)
LatestKey(kind, id) == keyJoin(<<<<"catalog">>, kind, id, <<"latest", ".json">>>>)
ArtifactKey(kind, id, version, file) == keyJoin(<<<<"catalog">>, kind, id, version, file>>)

\* ------------------------------------------------------------------- C1
\* The interface table read as a function of method and path, the legacy
\* prefix taken off as the handler takes it off.
TableRoute(method, path) ==
  LET a == apiPathOf(path)
  IN  IF method = "GET" /\ path \in {<<"/">>, LegacyPrefix, LegacyPrefix \o <<"/">>} THEN "root"
      ELSE IF method = "GET" /\ a = <<"/", "_health">> THEN "health"
      ELSE IF method = "POST" /\ a = <<"/", "_ingest", "/", "github">> THEN "ingest"
      ELSE IF method = "GET" /\ registryMatch(a).matched THEN "registry"
      ELSE IF method = "GET" /\ latestMatch(a).matched THEN "latest"
      ELSE IF method = "GET" /\ artifactMatch(a).matched THEN "artifact"
      ELSE "none"

\* C1 (as claimed): every non-OPTIONS request that is answered is answered
\* by the route the interface table gives for its method and path, and a
\* (method, path) pair outside the table is answered 404 not_found.
C1_RouteFollowsTable ==
  (Responded /\ req.method # "OPTIONS") =>
    /\ res.call.route = TableRoute(req.method, req.path)
    /\ (TableRoute(req.method, req.path) = "none" => res.out = notFound)

\* ------------------------------------------------------------------- C2
\* The health payload with its legacy flag put aside.
MaskLegacy(out) ==
  IF out.kind = "response" /\ "json" \in DOMAIN out.body /\ "legacy" \in DOMAIN out.body.json
  THEN [out EXCEPT !.body.json.legacy = FALSE]
  ELSE out

SameExchange(a, b) ==
  /\ a.call = b.call /\ a.kvReads = b.kvReads /\ a.r2Reads = b.r2Reads
  /\ MaskLegacy(a.out) = MaskLegacy(b.out)

\* C2 (as claimed): for every path p the handler routes somewhere, kind
\* "catalog" included, the request to "/catalog" + p is dispatched and
\* answered as the request to p, the health payload's legacy flag apart.
C2_PrefixTransparentForEveryPath ==
  (how = "mirror" /\ prev.res.call.route # "none") => SameExchange(prev.res, res)

\* C2 (amended): for every method and every path p that is not "/catalog"
\* and does not start with "/catalog/", the request to "/catalog" + p is
\* dispatched to the same resolver with the same parameters, reads the same
\* keys and yields the same outcome as the request to p, the health payload's
\* legacy flag apart; the prefix is stripped exactly once, so a path that
\* starts with two prefixes is routed, if at all, with kind "catalog".
C2_PrefixTransparent ==
  /\ (how = "mirror" /\ ~isLegacyPrefix(prev.req.path)) => SameExchange(prev.res, res)
  /\ (/\ Handled
      /\ StartsWith(req.path, LegacyPrefix \o LegacyPrefix \o <<"/">>)
      /\ res.call.route \notin {"none", "preflight"})
     => (res.call.route \in {"registry", "latest", "artifact"}
         /\ res.call.kind = <<"catalog">>)

\* A latest alias asked for through the legacy mount resolves, and to the
\* same redirect as through the root mount.
C2_Witness ==
  /\ how = "mirror" /\ ~isLegacyPrefix(prev.req.path)
  /\ res.call.route = "latest" /\ res.out.kind = "response" /\ res.out.status = 302
  /\ prev.res.out = res.out

\* ------------------------------------------------------------------- C3
\* C3 (as claimed): the Registry Resolver reads the key-value store once, at
\* catalog/<kind>/registry.json, and nothing from the blob store; with no
\* entry there it answers 404 not_found, and with any bytes B there it
\* answers 200 with body B, content type application/json and max-age=60.
C3_RegistryRelaysAnyBytes ==
  (Handled /\ res.call.route = "registry") =>
    LET key == RegistryKey(res.call.kind)
    IN  /\ res.kvReads = <<key>> /\ res.r2Reads = <<>>
        /\ (key \notin DOMAIN kv => res.out = notFound)
        /\ (key \in DOMAIN kv =>
              /\ res.out.kind = "response" /\ res.out.status = 200
              /\ res.out.body = kv[key]
              /\ HeaderIs(res.out, "content-type", "application/json; charset=utf-8")
              /\ HeaderIs(res.out, "cache-control", "public, max-age=60"))

\* ------------------------------------------------------------------- C4
\* The latest pointer of (kind, id) holds {"version": v}, v a non-empty string.
PointsTo(kind, id, v) ==
  /\ LatestKey(kind, id) \in DOMAIN kv
  /\ kv[LatestKey(kind, id)] = JsonText(JObject("version" :> JString(v)))
  /\ v # <<>>

ResolvedBy(r, q, v) ==
  /\ r.out.kind = "response" /\ r.out.status = 302
  /\ HeaderIs(r.out, "location",
              [origin |-> q.origin,
               pathname |-> <<"/">> \o encodeURIComponent(r.call.kind) \o <<"/">>
                              \o encodeURIComponent(r.call.id) \o <<"/">>
                              \o encodeURIComponent(v) \o <<"/">> \o r.call.file])
  /\ HeaderIs(r.out, "cache-control", "public, max-age=30")
  /\ (StartsWith(r.out.headers["location"].pathname, LegacyPrefix \o <<"/">>)
        => r.call.kind = <<"catalog">>)

DotSegments == { <<".">>, <<".", ".">> }

\* C4 (as claimed): whenever the pointer holds a non-empty string v, the
\* Latest Resolver answers 302 to <origin>/<kind>/<id>/<v>/<file>, each of
\* kind, id and v percent-encoded, with max-age=30, and the location starts
\* with /catalog/ only when the kind is "catalog".
C4_RedirectForEveryVersion ==
  (Handled /\ res.call.route = "latest") =>
    \A v \in Versions : PointsTo(res.call.kind, res.call.id, v) => ResolvedBy(res, req, v)

\* C4 (amended): the same, for every non-empty v that is not a dot segment
\* ("." or ".."), which the URL parser would take out of the path.
C4_RedirectToCanonical ==
  (Handled /\ res.call.route = "latest") =>
    \A v \in Versions \ DotSegments :
      PointsTo(res.call.kind, res.call.id, v) => ResolvedBy(res, req, v)

\* A legacy-prefixed request for a version holding a slash is redirected to
\* the root-based address with the slash escaped.
C4_Witness ==
  /\ Handled /\ res.call.route = "latest" /\ isLegacyPrefix(req.path)
  /\ res.call.kind = <<"x">>
  /\ PointsTo(res.call.kind, res.call.id, <<"x", "/", "x">>)
  /\ ResolvedBy(res, req, <<"x", "/", "x">>)
  /\ res.out.headers["location"].pathname
       = <<"/", "x", "/", "x", "/", "x", "%2F", "x", "/", "x", ".yaml">>

\* ------------------------------------------------------------------- C5
\* C5 (as claimed): with nothing stored under the pointer's key the Latest
\* Resolver answers 404 not_found; with a value stored that is not JSON, or
\* is JSON without a version field, it answers 500 invalid_latest.
C5_CorruptPointerIs500 ==
  (Handled /\ res.call.route = "latest") =>
    LET key == LatestKey(res.call.kind, res.call.id)
    IN  /\ (key \notin DOMAIN kv => res.out = notFound)
        /\ (/\ key \in DOMAIN kv
            /\ (kv[key].form # "json" \/ VersionOf(kv[key].value) = Undefined))
           => res.out = json([error |-> "invalid_latest", key |-> key], 500)

\* ------------------------------------------------------------------- C6
\* C6: the Artifact Resolver answers 404 not_found when the blob store holds
\* nothing under the canonical key of (kind, id, version, file); when it
\* holds an object the answer carries the object's etag, the immutable
\* one-year cache-control whatever the object stored, and the stored content
\* type, or without one: application/json for a file ending in .json,
\* text/yaml for .yaml or .yml, application/octet-stream otherwise.
C6_ArtifactHeaders ==
  (Handled /\ res.call.route = "artifact") =>
    LET c == res.call
        key == ArtifactKey(c.kind, c.id, c.version, c.file)
        last == IF c.file = <<>> THEN "" ELSE c.file[Len(c.file)]
    IN  /\ (key \notin DOMAIN r2 => res.out = notFound)
        /\ (key \in DOMAIN r2 =>
              /\ res.out.kind = "response" /\ res.out.body = r2[key].body
              /\ HeaderIs(res.out, "etag", r2[key].httpEtag)
              /\ HeaderIs(res.out, "cache-control", "public, max-age=31536000, immutable")
              /\ HeaderIs(res.out, "content-type",
                    IF "content-type" \in DOMAIN r2[key].httpMetadata
                      THEN r2[key].httpMetadata["content-type"]
                    ELSE IF last = ".json" THEN "application/json; charset=utf-8"
                    ELSE IF last \in {".yaml", ".yml"} THEN "text/yaml; charset=utf-8"
                    ELSE "application/octet-stream"))

\* A .yml artifact stored without a content type is served as text/yaml.
C6_Witness ==
  /\ Handled /\ res.call.route = "artifact"
  /\ EndsWith(res.call.file, <<".yml">>)
  /\ res.out.kind = "response" /\ res.out.status = 200
  /\ \E k \in DOMAIN r2 : r2[k].httpMetadata = NoHeaders
  /\ HeaderIs(res.out, "content-type", "text/yaml; charset=utf-8")

\* ------------------------------------------------------------------- C7
\* C7 (as claimed): every request ends in a response that carries the fixed
\* cross-origin headers, and an OPTIONS request in an empty 204 with those
\* headers only and no store read.
C7_EveryOutcomeCarriesCors ==
  Handled =>
    /\ res.out.kind = "response" /\ HasCors(res.out)
    /\ (req.method = "OPTIONS" =>
          /\ res.out = Response(None, 204, CORS_HEADERS)
          /\ res.kvReads = <<>> /\ res.r2Reads = <<>>)

\* ------------------------------------------------------------------- C8
Canonical(key) ==
  /\ \A i \in 1..Len(key) : key[i] # "\\"
  /\ (key # <<>> => key[1] # "/")
  /\ \A i \in 1..(Len(key) - 1) : ~(key[i] = "/" /\ key[i + 1] = "/")

\* C8: for every list of parts keyJoin returns a key with no backslash, no
\* leading slash and no two slashes in a row, and keyJoin of that key is
\* the key itself.
C8_KeyCanonical ==
  /\ (keyOut # None => Canonical(keyOut.key))
  /\ (keyAgain # None => keyAgain = keyOut)

\* Parts with a backslash, a leading slash and two separate runs of slashes.
C8_Witness ==
  /\ keyParts = << <<"\\", "x">>, <<"/", "/">> >>
  /\ keyAgain # None /\ keyAgain.key = <<"x", "/">>

\* ------------------------------------------------------------------- C9
\* C9 (as claimed): the Artifact Resolver reads the key built from the
\* percent-decoded kind, id, version and file.
C9_FileIsDecoded ==
  (Handled /\ res.call.route = "artifact" /\ ~DecodeThrows(artifactMatch(apiPathOf(req.path)).g4)) =>
    LET m == artifactMatch(apiPathOf(req.path))
    IN  res.r2Reads = << ArtifactKey(decodeURIComponent(m.g1), decodeURIComponent(m.g2),
                                     decodeURIComponent(m.g3), decodeURIComponent(m.g4)) >>

\* ------------------------------------------------------------------ C10
\* The version the pointer of the redirecting exchange names.
Resolved(x) ==
  StringOf(VersionOf(JSONparse(kv[LatestKey(x.res.call.kind, x.res.call.id)])))

LandsOnArtifact(x, r) ==
  LET c == x.res.call
      v == Resolved(x)
  IN  /\ r.call = [route |-> "artifact", kind |-> c.kind, id |-> c.id,
                   version |-> v, file |-> c.file]
      /\ r.r2Reads = << ArtifactKey(c.kind, c.id, v, c.file) >>
      /\ r.kvReads = <<>>
      /\ r.out.kind = "response" /\ r.out.status \in {200, 404}

\* C10 (as claimed): following the Latest Resolver's redirect always lands
\* on the Artifact Resolver with the same kind, id and file and the pointer's
\* version, whatever the version and the kind.
C10_FollowAlwaysLandsOnArtifact ==
  (how = "follow" /\ prev.res.call.route = "latest") => LandsOnArtifact(prev, res)

\* C10 (amended): it does so whenever the version is not "latest", "." or
\* ".." and the kind is not "catalog".
C10_OneHop ==
  (/\ how = "follow" /\ prev.res.call.route = "latest"
   /\ Resolved(prev) \notin {<<"latest">>} \cup DotSegments
   /\ prev.res.call.kind # <<"catalog">>)
  => LandsOnArtifact(prev, res)

\* A followed redirect that ends in the artifact itself.
C10_Witness ==
  /\ how = "follow" /\ prev.res.call.route = "latest"
  /\ Resolved(prev) = <<"x", "/", "x">>
  /\ LandsOnArtifact(prev, res) /\ res.out.status = 200

====
